---- MODULE Spec2Model ----
(***************************************************************************)
(* A model of grimoire/torch2trt: the interception hooks and the trace     *)
(* context of torch2trt/torch2trt.py, the broadcast resolver trt_, and the *)
(* indexing translator of torch2trt/converters/getitem.py.                 *)
(***************************************************************************)
EXTENDS Integers, Sequences, FiniteSets, TLC

(***************************************************************************)
(* Bounds of the model.                                                    *)
(***************************************************************************)
MaxHooks == 2     \* registrations in CONVERTERS
MaxDepth == 3     \* wrapper frames on the call stack
MaxCalls == 3     \* wrapper invocations in one trace
MaxOps == 2       \* operands of one trt_ call
MaxTrtCalls == 2  \* trt_ calls in one trace
MaxDim == 3       \* largest dimension size given to slice_to_trt
MaxIdx == 4       \* slice start and stop range over -MaxIdx..MaxIdx
MaxStep == 2      \* largest slice step
MaxRank == 3      \* largest rank of an indexed tensor
MaxIdxLen == 3    \* elements of an index expression

VARIABLES
    registry,   \* CONVERTERS as the ordered items of the dict: <<[key, is_real]>>
    slots,      \* the live attribute each qualified name denotes
    impl,       \* ConversionHook.method_impl, per hook
    phase,      \* where the driver is in "with ConversionContext(...) as ctx"
    stack,      \* the active wrapper calls, outermost first
    lock,       \* ctx.lock
    margs,      \* ctx.method_args
    mkwargs,    \* ctx.method_kwargs
    mret,       \* ctx.method_return
    mstr,       \* ctx.method_str
    ncalls,     \* wrapper invocations made so far
    emits,      \* translators invoked since the current top-level call began
    ev,         \* the last step taken, with the lock value before it
    dyn,        \* support_dynamic_shape
    inputs,     \* the tensors given to ConversionContext.add_inputs
    bind,       \* the _trt attribute of every host tensor
    nlayers,    \* layers the network holds
    nconst,     \* per tensor, the constant layers made from it
    firstRet,   \* per tensor, the handle trt_ returned for it the first time
    ntrt,       \* trt_ calls made so far
    tres,       \* the last trt_ call: operands, resolved dtype, handles, errors
    sl,         \* one slice_to_trt call: dim_size, dim_slice and the result
    gi          \* one convert_tensor_getitem call: input shape, slices, mode, layers

hookVars == <<registry, slots, impl, phase, stack, lock, margs, mkwargs, mret,
              mstr, ncalls, emits, ev>>

trtVars == <<dyn, inputs, bind, nlayers, nconst, firstRet, ntrt, tres>>
vars == <<hookVars, trtVars, sl, gi>>
\* what the hooks and the trace context never touch
notHooks == <<trtVars, sl, gi>>
notTrt == <<hookVars, sl, gi>>
notSlice == <<hookVars, trtVars, gi>>
notIndex == <<hookVars, trtVars, sl>>

(***************************************************************************)
(* Values.                                                                 *)
(***************************************************************************)
NoneVal == [tag |-> "None", v |-> 0]
Args(c) == [tag |-> "args", v |-> c]
Kwargs(c) == [tag |-> "kwargs", v |-> c]
\* what the original host operation computes from the arguments of call c
Out(c) == [tag |-> "out", v |-> c]

\* callables: an original host operation, a wrapper made by hook i, or nothing
Orig(s) == [kind |-> "orig", id |-> s]
Wrap(i) == [kind |-> "wrap", id |-> i]
NoImpl == [kind |-> "none", id |-> 0]
Absent == [kind |-> "absent", id |-> 0]

\* qualified names: "alias" is a second importable name of the module "torch"
\* names, so "alias.a" and "torch.a" denote one attribute; "nomod" cannot be
\* imported; "torch.missing" is an attribute torch does not have.
Key(m, a) == [mod |-> m, attr |-> a]
Keys == {Key("torch", "a"), Key("torch", "b"), Key("alias", "a"),
         Key("torch", "missing"), Key("nomod", "f")}
UnsetKey == Key("", "unset")

Slots == 1..3
SlotOf(key) == CASE key.attr = "a" -> 1
                 [] key.attr = "b" -> 2
                 [] OTHER -> 3
Slots0 == [s \in Slots |-> IF s = 3 THEN Absent ELSE Orig(s)]

StartsWithTorch(key) == key.mod = "torch"
Importable(m) == m \in {"torch", "alias"}
\* the module name is bound in globals(): torch by line 2, others by the exec
\* of line 274 when the import succeeds
ModuleBound(key) == StartsWithTorch(key) \/ Importable(key.mod)

\* eval(self.method_str), lines 277-280
EvalKey(key, attrs) ==
    IF ~ModuleBound(key) THEN [exc |-> "NameError", val |-> NoImpl]
    ELSE IF attrs[SlotOf(key)] = Absent THEN [exc |-> "AttributeError", val |-> NoImpl]
    ELSE [exc |-> "", val |-> attrs[SlotOf(key)]]

\* ConversionHook._set_method
SetMethod(key, attrs, method) == [attrs EXCEPT ![SlotOf(key)] = method]

\* ConversionHook.__enter__ on hook i, from st = [slots, impl, raised]
HookEnter(reg, i, st) ==
    LET key == reg[i].key
        r == EvalKey(key, st.slots)
    IN  IF r.exc = "NameError"
        THEN [st EXCEPT !.raised = TRUE]
        ELSE IF r.exc = "AttributeError"
        THEN [st EXCEPT !.impl[i] = NoImpl]
        ELSE [st EXCEPT !.impl[i] = r.val,
                        !.slots = SetMethod(key, st.slots, Wrap(i))]

\* ConversionContext.__enter__: the hooks in order; an exception ends the loop
RECURSIVE CtxEnterFrom(_, _, _)
CtxEnterFrom(reg, i, st) ==
    IF i > Len(reg) \/ st.raised THEN st
    ELSE CtxEnterFrom(reg, i + 1, HookEnter(reg, i, st))

\* ConversionHook.__exit__
HookExit(reg, i, st) ==
    IF st.impl[i] # NoImpl
    THEN [st EXCEPT !.slots = SetMethod(reg[i].key, st.slots, st.impl[i])]
    ELSE st

\* ConversionContext.__exit__: the hooks in the order of __enter__
RECURSIVE CtxExitFrom(_, _, _)
CtxExitFrom(reg, i, st) ==
    IF i > Len(reg) THEN st
    ELSE CtxExitFrom(reg, i + 1, HookExit(reg, i, st))

(***************************************************************************)
(* The registry: tensorrt_converter stores one entry per qualified name.   *)
(***************************************************************************)
Registration == [key : Keys, is_real : BOOLEAN]
Registries ==
    { r \in UNION { [1..n -> Registration] : n \in 1..MaxHooks } :
        \A i, j \in DOMAIN r : i # j => r[i].key # r[j].key }

NoEvent == [type |-> "none", hook |-> 0, call |-> 0, skip |-> FALSE,
            val |-> NoneVal, mout |-> NoneVal, lockBefore |-> FALSE, depth |-> 0]

\* ConversionContext.__init__
NewContext ==
    /\ registry \in Registries
    /\ slots = Slots0
    /\ impl = [i \in 1..Len(registry) |-> NoImpl]
    /\ phase = "init"
    /\ stack = <<>>
    /\ lock = FALSE
    /\ margs = NoneVal
    /\ mkwargs = NoneVal
    /\ mret = NoneVal
    /\ mstr = UnsetKey
    /\ ncalls = 0
    /\ emits = 0
    /\ ev = NoEvent

\* "with ConversionContext(network) as ctx": __enter__
Enter ==
    /\ phase = "init"
    /\ LET st == CtxEnterFrom(registry, 1,
                     [slots |-> slots, impl |-> impl, raised |-> FALSE])
       IN  /\ slots' = st.slots
           /\ impl' = st.impl
           /\ phase' = IF st.raised THEN "enter_raised" ELSE "entered"
    /\ ev' = [NoEvent EXCEPT !.type = "enter"]
    /\ UNCHANGED notHooks
    /\ UNCHANGED <<registry, stack, lock, margs, mkwargs, mret, mstr, ncalls, emits>>

(***************************************************************************)
(* attach_converter.wrapper.  A frame is one active wrapper call; its pc   *)
(* is the place the wrapper has reached:                                   *)
(*   "call"    about to run line 236, the method being an earlier wrapper  *)
(*   "wait"    inside line 236, that earlier wrapper running               *)
(*   "method"  inside line 236, the original host implementation running   *)
(*   "after"   line 236 has returned into outputs                          *)
(*   "conv"    inside line 245, the translator running                     *)
(***************************************************************************)
Top == stack[Len(stack)]
Rest == SubSeq(stack, 1, Len(stack) - 1)
IsReal(i) == registry[i].is_real

\* lines 227-233: skip starts True and is cleared only when the lock is free
WrapperSkip(lk) == lk

\* the wrapper with line 232 left out
WrapperLockNeverTaken(lk, is_real) == lk

\* lines 230-232: only a real converter takes a free lock
WrapperLock(lk, is_real) == IF ~lk /\ is_real THEN TRUE ELSE lk

\* lines 226-236, up to the call of method
NewFrame(i, c, lk) ==
    [hook |-> i, call |-> c, skip |-> WrapperSkip(lk),
     pc |-> IF impl[i].kind = "wrap" THEN "call" ELSE "method",
     outputs |-> NoneVal, mout |-> NoneVal]

\* wrappers a call of this callable runs through before an original runs
RECURSIVE ChainLen(_)
ChainLen(f) == IF f.kind = "wrap" THEN 1 + ChainLen(impl[f.id]) ELSE 0

\* host code (the traced program, an original implementation or a translator)
\* is what is running
HostOnTop == IF stack = <<>> THEN TRUE ELSE Top.pc \in {"method", "conv"}

\* host code calls the operation that slot s denotes, a wrapper, with fresh
\* arguments: call c is the c-th wrapper invocation of the trace
Call(s) ==
    /\ phase = "entered"
    /\ HostOnTop
    /\ slots[s].kind = "wrap"
    /\ Len(stack) + ChainLen(slots[s]) <= MaxDepth
    /\ ncalls + ChainLen(slots[s]) <= MaxCalls
    /\ LET i == slots[s].id
           c == ncalls + 1
       IN  /\ stack' = Append(stack, NewFrame(i, c, lock))
           /\ lock' = WrapperLock(lock, IsReal(i))
           /\ ev' = [NoEvent EXCEPT !.type = "call", !.hook = i, !.call = c,
                                    !.skip = WrapperSkip(lock),
                                    !.lockBefore = lock, !.depth = Len(stack) + 1]
    /\ ncalls' = ncalls + 1
    /\ emits' = IF stack = <<>> THEN 0 ELSE emits
    /\ UNCHANGED notHooks
    /\ UNCHANGED <<registry, slots, impl, phase, margs, mkwargs, mret, mstr>>

\* line 236 of a wrapper whose method is itself a wrapper (two names, one attribute)
InnerCall ==
    /\ phase = "entered"
    /\ stack # <<>>
    /\ Top.pc = "call"
    /\ LET i == impl[Top.hook].id
       IN  /\ stack' = Append([stack EXCEPT ![Len(stack)].pc = "wait"],
                              NewFrame(i, Top.call, lock))
           /\ lock' = WrapperLock(lock, IsReal(i))
           /\ ev' = [NoEvent EXCEPT !.type = "call", !.hook = i, !.call = Top.call,
                                    !.skip = WrapperSkip(lock),
                                    !.lockBefore = lock, !.depth = Len(stack) + 1]
    /\ ncalls' = ncalls + 1
    /\ UNCHANGED notHooks
    /\ UNCHANGED <<registry, slots, impl, phase, margs, mkwargs, mret, mstr, emits>>

\* line 254 seen from the caller: a wrapper waiting in line 236 receives the value
ReturnTo(rest, v) ==
    IF rest # <<>> /\ rest[Len(rest)].pc = "wait"
    THEN [rest EXCEPT ![Len(rest)] = [@ EXCEPT !.outputs = v, !.mout = v, !.pc = "after"]]
    ELSE rest

\* lines 239-242: the bound call of frame f, its method having returned v
BindCall(f, v) ==
    [args |-> Args(f.call), kwargs |-> Kwargs(f.call), ret |-> v,
     str |-> registry[f.hook].key]

\* lines 249-251: what the wrapper leaves in ctx after the translator
\* (ctx.method_str is not assigned there)
ClearCall(str) ==
    [args |-> NoneVal, kwargs |-> NoneVal, ret |-> NoneVal, str |-> str]

\* lines 238-245 (not skip) or 254 (skip), the method having returned v
PostMethod(v) ==
    IF Top.skip
    THEN /\ stack' = ReturnTo(Rest, v)
         /\ ev' = [NoEvent EXCEPT !.type = "skipret", !.hook = Top.hook,
                                  !.call = Top.call, !.skip = TRUE, !.val = v,
                                  !.mout = v, !.lockBefore = lock,
                                  !.depth = Len(stack)]
         /\ UNCHANGED <<margs, mkwargs, mret, mstr, emits>>
    ELSE /\ margs' = BindCall(Top, v).args
         /\ mkwargs' = BindCall(Top, v).kwargs
         /\ mret' = BindCall(Top, v).ret
         /\ mstr' = BindCall(Top, v).str
         /\ stack' = [stack EXCEPT ![Len(stack)] =
                         [@ EXCEPT !.outputs = v, !.mout = v, !.pc = "conv"]]
         /\ emits' = emits + 1
         /\ ev' = [NoEvent EXCEPT !.type = "invoke", !.hook = Top.hook,
                                  !.call = Top.call, !.val = v, !.mout = v,
                                  !.lockBefore = lock, !.depth = Len(stack)]

\* the original host implementation returns
OrigReturn ==
    /\ phase = "entered"
    /\ stack # <<>>
    /\ Top.pc = "method"
    /\ PostMethod(Out(Top.call))
    /\ UNCHANGED notHooks
    /\ UNCHANGED <<registry, slots, impl, phase, lock, ncalls>>

\* the wrapper that was the method has returned
WrapperReturned ==
    /\ phase = "entered"
    /\ stack # <<>>
    /\ Top.pc = "after"
    /\ PostMethod(Top.outputs)
    /\ UNCHANGED notHooks
    /\ UNCHANGED <<registry, slots, impl, phase, lock, ncalls>>

\* lines 246-254: the translator has returned
ConvReturn ==
    /\ phase = "entered"
    /\ stack # <<>>
    /\ Top.pc = "conv"
    /\ stack' = ReturnTo(Rest, mret)
    /\ margs' = ClearCall(mstr).args
    /\ mkwargs' = ClearCall(mstr).kwargs
    /\ mret' = ClearCall(mstr).ret
    /\ mstr' = ClearCall(mstr).str
    /\ lock' = FALSE
    /\ ev' = [NoEvent EXCEPT !.type = "convret", !.hook = Top.hook,
                             !.call = Top.call, !.val = mret, !.mout = Top.mout,
                             !.lockBefore = lock, !.depth = Len(stack)]
    /\ UNCHANGED notHooks
    /\ UNCHANGED <<registry, slots, impl, phase, ncalls, emits>>

\* The running host code (an original implementation or a translator) raises.
\* The wrapper has no try/finally: the exception leaves every frame above the
\* handler as it is.  The handler is the traced program (k = 0) or an original
\* implementation further down; the translators of this repository handle nothing.
Raise(k) ==
    /\ phase = "entered"
    /\ stack # <<>>
    /\ Top.pc \in {"method", "conv"}
    /\ k < Len(stack)
    /\ IF k = 0 THEN TRUE ELSE stack[k].pc = "method"
    /\ stack' = SubSeq(stack, 1, k)
    /\ ev' = [NoEvent EXCEPT !.type = "raise", !.hook = Top.hook, !.call = Top.call,
                             !.skip = Top.skip, !.lockBefore = lock,
                             !.depth = Len(stack)]
    /\ UNCHANGED notHooks
    /\ UNCHANGED <<registry, slots, impl, phase, lock, margs, mkwargs, mret, mstr,
                   ncalls, emits>>

\* the with block ends: ConversionContext.__exit__, after a normal end
\* (raised = FALSE) or with an exception leaving the traced program
Exit(raised) ==
    /\ phase = "entered"
    /\ stack = <<>>
    /\ LET st == CtxExitFrom(registry, 1,
                     [slots |-> slots, impl |-> impl, raised |-> FALSE])
       IN  slots' = st.slots
    /\ phase' = IF raised THEN "exited_raised" ELSE "exited"
    /\ ev' = [NoEvent EXCEPT !.type = "exit", !.lockBefore = lock]
    /\ UNCHANGED notHooks
    /\ UNCHANGED <<registry, impl, stack, lock, margs, mkwargs, mret, mstr,
                   ncalls, emits>>

Next ==
    \/ Enter
    \/ \E s \in Slots : Call(s)
    \/ InnerCall
    \/ OrigReturn
    \/ WrapperReturned
    \/ ConvReturn
    \/ \E k \in 0..MaxDepth : Raise(k)
    \/ \E raised \in BOOLEAN : Exit(raised)

(***************************************************************************)
(* Properties of the hooks and the trace context.                          *)
(***************************************************************************)
WrapperEvents == {"call", "skipret", "invoke", "convret"}
Cleared == margs = NoneVal /\ mkwargs = NoneVal /\ mret = NoneVal
Exited == phase \in {"exited", "exited_raised"}

\* the original a callable reaches through the wrappers around it
RECURSIVE BaseOf(_)
BaseOf(f) == IF f.kind = "wrap" THEN BaseOf(impl[f.id]) ELSE f

\* the top-level call is a real registration whose wrapper found the lock free
TopLevelReal == stack # <<>> /\ IsReal(stack[1].hook) /\ ~stack[1].skip

\* C1 (reentrancy guarantee): while a top-level call of a real registration
\* that found the lock free is active, every wrapper nested in it has
\* skip = TRUE and only the outermost translator has been invoked; a nested
\* wrapper returns the original's output; and when the outermost wrapper
\* returns, exactly one translator has run and the lock is free.
C1_Reentrancy ==
    /\ TopLevelReal =>
          /\ \A k \in 2..Len(stack) : stack[k].skip
          /\ emits = (IF stack[1].pc = "conv" THEN 1 ELSE 0)
          /\ lock
          /\ (ev.type = "skipret" /\ ev.depth > 1) => ev.val = Out(ev.call)
    /\ (ev.type = "convret" /\ ev.depth = 1 /\ IsReal(ev.hook)) =>
          (emits = 1 /\ ~lock)

\* a top-level real call has returned after two wrapper calls nested in it
C1_Witness ==
    /\ ev.type = "convret" /\ ev.depth = 1 /\ IsReal(ev.hook)
    /\ ev.call = 1 /\ ncalls = 3 /\ emits = 1

\* C2 (install/uninstall round trip): while the context is entered every
\* registered name whose original resolved denotes a wrapper around that
\* original; after the context exits, normally or not, every registered name
\* denotes the callable it denoted before entry; a name that did not resolve
\* is never modified.
C2_RoundTrip ==
    \A i \in DOMAIN registry :
        LET key == registry[i].key
            before == EvalKey(key, Slots0)
            now == EvalKey(key, slots)
        IN  /\ (phase = "entered" /\ before.exc = "") =>
                  (now.val.kind = "wrap" /\ BaseOf(now.val) = before.val)
            /\ Exited => now = before
            /\ before.exc # "" => now = before

\* C3 (an unresolvable registration is not fatal): entering the context never
\* raises, and once entered every registration that resolves is installed.
C3_EnterNeverRaises ==
    /\ phase # "enter_raised"
    /\ phase = "entered" =>
          \A i \in DOMAIN registry :
              EvalKey(registry[i].key, Slots0).exc = "" => impl[i] # NoImpl

\* C4 (bound call, populate and clear): whenever no translator is executing,
\* that is before the first intercepted call, between intercepted calls and
\* after a non-skipped wrapper has returned, the bound call (args, kwargs,
\* return value, operation key) holds the invalid sentinel; and when a
\* translator is invoked the fields are the wrapper's own arguments, the
\* original's output and the registration's operation key.
C4_BoundCall ==
    /\ (\A k \in 1..Len(stack) : stack[k].pc # "conv") =>
          (Cleared /\ mstr = UnsetKey)
    /\ ev.type = "invoke" =>
          /\ margs = Args(ev.call) /\ mkwargs = Kwargs(ev.call)
          /\ mret = ev.mout /\ mstr = registry[ev.hook].key

\* C10 (lock ownership): the lock goes FREE -> LOCKED only at the entry of a
\* real wrapper that finds it free, goes LOCKED -> FREE only when that real
\* wrapper's translator has returned, a helper wrapper never changes the lock,
\* and a real operation called by the host code of a helper wrapper that was
\* entered with the lock free is not skipped.
C10_LockOwnership ==
    /\ (~ev.lockBefore /\ lock) => (ev.type = "call" /\ IsReal(ev.hook))
    /\ (ev.lockBefore /\ ~lock) => (ev.type = "convret" /\ IsReal(ev.hook))
    /\ (ev.type \in WrapperEvents /\ ~IsReal(ev.hook)) => lock = ev.lockBefore
    /\ \A k \in 1..Len(stack) - 1 :
          (~IsReal(stack[k].hook) /\ ~stack[k].skip /\ IsReal(stack[k + 1].hook))
              => ~stack[k + 1].skip

\* the bound call is the call of frame f
BoundTo(f) ==
    margs = Args(f.call) /\ mkwargs = Kwargs(f.call) /\ mret = f.mout

\* C14 (bound-call integrity during translation): for every wrapper, real or
\* helper, whose translator is running, the bound args, kwargs and return
\* value are those of that wrapper's own call, whatever registered operations
\* the translator invokes, and the wrapper returns the value its original
\* produced, never the cleared sentinel.
C14_BoundCallIntegrity ==
    /\ \A k \in 1..Len(stack) : stack[k].pc = "conv" => BoundTo(stack[k])
    /\ ev.type = "convret" => (ev.val = ev.mout /\ ev.val # NoneVal)

\* frame f acquired the lock: a real wrapper that found it free
Acquired(f) == IsReal(f.hook) /\ ~f.skip

\* C15 (lock release on failure): when the original operation or the
\* translator raises inside a wrapper that acquired the lock, the lock is free
\* and the bound call is cleared once the exception has left that wrapper, so
\* the lock is held only while the wrapper that acquired it is active and
\* later registered operations are not skipped.
C15_ReleaseOnFailure ==
    /\ (ev.type = "raise" /\ IsReal(ev.hook) /\ ~ev.skip) => (~lock /\ Cleared)
    /\ lock => \E k \in 1..Len(stack) : Acquired(stack[k])

(***************************************************************************)
(* The broadcast resolver: check_torch_dtype and trt_.                      *)
(***************************************************************************)
\* the host tensors of the traced program: dtype and shape
Tensors == {"x", "w", "z", "n"}
TDtype(t) == IF t = "n" THEN "int32" ELSE "float32"
TShape(t) == CASE t = "x" -> <<1, 2, 3>>
               [] t = "w" -> <<3>>
               [] t = "z" -> <<>>
               [] OTHER -> <<1, 3>>

\* an operand of trt_: a tensor, a Python float, a Python int, or anything else
TensorOp(t) == [k |-> "tensor", t |-> t]
FloatOp == [k |-> "float", t |-> ""]
IntOp == [k |-> "int", t |-> ""]
OtherOp == [k |-> "other", t |-> ""]
Operands == {TensorOp(t) : t \in Tensors} \cup {FloatOp, IntOp, OtherOp}
OperandLists == UNION { [1..n -> Operands] : n \in 0..MaxOps }
\* the operands of the translators that share weights: an activation, a weight
\* and a number
LeafOperands == {TensorOp("x"), TensorOp("w"), FloatOp}
LeafLists == UNION { [1..n -> LeafOperands] : n \in 0..MaxOps }

NoHandle == [id |-> 0, shape |-> <<>>, kind |-> "none", src |-> 0]
Handle(n, shape, kind, src) == [id |-> n, shape |-> shape, kind |-> kind, src |-> src]

Tail1(sq) == IF sq = <<>> THEN <<>> ELSE Tail(sq)
Ones(n) == [i \in 1..n |-> 1]

\* ConversionContext.add_inputs, lines 318-340: the shape of the input layer
InputShape(t, dynamic) == IF dynamic THEN TShape(t) ELSE Tail1(TShape(t))

\* the layer numbers add_inputs gives the chosen tensors, taken in a fixed order
TensorIndex(t) == CASE t = "x" -> 1 [] t = "w" -> 2 [] t = "z" -> 3 [] OTHER -> 4
InputId(t, ins) == Cardinality({u \in ins : TensorIndex(u) <= TensorIndex(t)})
InputHandle(t, ins, dynamic) ==
    Handle(InputId(t, ins), InputShape(t, dynamic), "input", 0)

\* check_torch_dtype, lines 99-104: the tensors fix the type and must agree
RECURSIVE TensorLoop(_, _, _)
TensorLoop(ops, i, dtype) ==
    IF i > Len(ops) THEN [dtype |-> dtype, err |-> FALSE]
    ELSE IF ops[i].k # "tensor" THEN TensorLoop(ops, i + 1, dtype)
    ELSE IF dtype = "None" THEN TensorLoop(ops, i + 1, TDtype(ops[i].t))
    ELSE IF dtype = TDtype(ops[i].t) THEN TensorLoop(ops, i + 1, dtype)
    ELSE [dtype |-> dtype, err |-> TRUE]

\* check_torch_dtype, lines 106-116: a scalar sets the type only while it is None
RECURSIVE ScalarLoop(_, _, _)
ScalarLoop(ops, i, dtype) ==
    IF i > Len(ops) THEN dtype
    ELSE IF ops[i].k = "float"
    THEN ScalarLoop(ops, i + 1, IF dtype = "None" THEN "float32" ELSE dtype)
    ELSE IF ops[i].k = "int"
    THEN ScalarLoop(ops, i + 1, IF dtype = "None" THEN "int32" ELSE dtype)
    ELSE ScalarLoop(ops, i + 1, dtype)

\* check_torch_dtype: err is a failed assert (line 104 or line 119)
CheckTorchDtype(ops) ==
    LET r == TensorLoop(ops, 1, "None")
    IN  IF r.err THEN [dtype |-> "None", err |-> TRUE]
        ELSE LET d == ScalarLoop(ops, 1, r.dtype)
             IN  [dtype |-> d, err |-> d = "None"]

\* trt_, lines 130-139: the broadcast dimension, from the tensors alone
RECURSIVE BroadcastNumDim(_, _, _, _)
BroadcastNumDim(ops, i, bnd, b) ==
    IF i > Len(ops) THEN bnd
    ELSE IF ops[i].k # "tensor" THEN BroadcastNumDim(ops, i + 1, bnd, b)
    ELSE LET num_dim == IF b[ops[i].t] = NoHandle
                        THEN Len(TShape(ops[i].t))
                        ELSE Len(b[ops[i].t].shape)
         IN  BroadcastNumDim(ops, i + 1, IF num_dim > bnd THEN num_dim ELSE bnd, b)

\* trt_, lines 169-175: a shuffle layer puts 1-sized dimensions in front
Broadcastable(h, bnd, n) ==
    IF Len(h.shape) < bnd
    THEN Handle(n + 1, Ones(bnd - Len(h.shape)) \o h.shape, "shuffle", h.id)
    ELSE h

\* trt_ with line 156 making the constant but not storing it in t._trt
SetTrtDropped(b, t, h) == b

\* line 156: t._trt = network.add_constant(shape, weight).get_output(0)
SetTrt(b, t, h) == [b EXCEPT ![t] = h]

\* trt_, lines 141-177, operand i, from st = [bind, nlayers, nconst, handles, err]
TrtOperand(ops, i, bnd, st) ==
    LET o == ops[i]
        bound == o.k = "tensor" /\ st.bind[o.t] # NoHandle
        leaf == o.k = "tensor" /\ st.bind[o.t] = NoHandle
        scalar == o.k \in {"float", "int"}
        h == IF bound THEN st.bind[o.t]
             ELSE IF leaf THEN Handle(st.nlayers + 1, TShape(o.t), "const", 0)
             ELSE Handle(st.nlayers + 1, <<1>>, "const", 0)
        n1 == IF bound THEN st.nlayers ELSE st.nlayers + 1
        out == Broadcastable(h, bnd, n1)
    IN  IF ~(bound \/ leaf \/ scalar)
        THEN [st EXCEPT !.err = TRUE]
        ELSE [bind |-> IF leaf THEN SetTrt(st.bind, o.t, h) ELSE st.bind,
              nlayers |-> IF out = h THEN n1 ELSE n1 + 1,
              nconst |-> IF leaf THEN [st.nconst EXCEPT ![o.t] = @ + 1] ELSE st.nconst,
              handles |-> Append(st.handles, out),
              err |-> FALSE]

RECURSIVE TrtLoop(_, _, _, _)
TrtLoop(ops, i, bnd, st) ==
    IF i > Len(ops) \/ st.err THEN st
    ELSE TrtLoop(ops, i + 1, bnd, TrtOperand(ops, i, bnd, st))

\* trt_(network, *tensors)
Trt(ops, b, n, nc) ==
    LET d == CheckTorchDtype(ops)
        bnd == BroadcastNumDim(ops, 1, 0, b)
        st0 == [bind |-> b, nlayers |-> n, nconst |-> nc, handles |-> <<>>,
                err |-> FALSE]
    IN  IF d.err
        THEN [dtype |-> d.dtype, dtypeErr |-> TRUE, bnd |-> 0, st |-> st0]
        ELSE [dtype |-> d.dtype, dtypeErr |-> FALSE, bnd |-> bnd,
              st |-> TrtLoop(ops, 1, bnd, st0)]

NoTrt == [called |-> FALSE, ops |-> <<>>, dtype |-> "None", dtypeErr |-> FALSE,
          opErr |-> FALSE, bnd |-> 0, handles |-> <<>>, base |-> 0]

\* a trace in which no translator has called trt_ yet: add_inputs has bound
\* the tensors of ins
FreshTrace(ins) ==
    /\ dyn \in BOOLEAN
    /\ inputs = ins
    /\ bind = [t \in Tensors |-> IF t \in ins
                                 THEN InputHandle(t, ins, dyn) ELSE NoHandle]
    /\ nlayers = Cardinality(ins)
    /\ nconst = [t \in Tensors |-> 0]
    /\ firstRet = [t \in Tensors |-> NoHandle]
    /\ ntrt = 0
    /\ tres = NoTrt

\* the first position of tensor t in ops, 0 when it is not an operand
FirstPos(ops, t) ==
    IF \E i \in 1..Len(ops) : ops[i] = TensorOp(t)
    THEN CHOOSE i \in 1..Len(ops) :
            ops[i] = TensorOp(t) /\ \A j \in 1..(i - 1) : ops[j] # TensorOp(t)
    ELSE 0

\* a translator calls trt_(ctx.network, *ops)
TrtCall(ops) ==
    /\ \E r \in {Trt(ops, bind, nlayers, nconst)} :
         LET hs == r.st.handles
         IN  /\ bind' = r.st.bind
             /\ nlayers' = r.st.nlayers
             /\ nconst' = r.st.nconst
             /\ tres' = [called |-> TRUE, ops |-> ops, dtype |-> r.dtype,
                         dtypeErr |-> r.dtypeErr, opErr |-> r.st.err,
                         bnd |-> r.bnd, handles |-> hs, base |-> nlayers]
             /\ firstRet' = [t \in Tensors |->
                   IF firstRet[t] # NoHandle \/ FirstPos(ops, t) = 0
                      \/ FirstPos(ops, t) > Len(hs)
                   THEN firstRet[t] ELSE hs[FirstPos(ops, t)]]
    /\ ntrt' = ntrt + 1
    /\ UNCHANGED <<dyn, inputs>>
    /\ UNCHANGED notTrt

\* the first trt_ call of a trace, on any operand list
Resolve ==
    /\ ntrt = 0
    /\ \E ops \in OperandLists : TrtCall(ops)

\* the translators of one trace call trt_ one after the other
ResolveAgain ==
    /\ ntrt < MaxTrtCalls
    /\ \E ops \in LeafLists : TrtCall(ops)

(***************************************************************************)
(* Properties of the broadcast resolver.                                   *)
(***************************************************************************)
Returned == tres.called /\ ~tres.dtypeErr /\ ~tres.opErr
Positions(t) == {i \in 1..Len(tres.handles) : tres.ops[i] = TensorOp(t)}

\* C5 as claimed: a leaf tensor consumed by trt_ calls of one trace gets
\* exactly one constant node and every call returns the same handle for it
\* (reference equality); a tensor that has a binding before the first call
\* gets no constant node and keeps its binding.
C5_SameHandle ==
    \A t \in Tensors :
        IF t \in inputs
        THEN nconst[t] = 0 /\ bind[t] = InputHandle(t, inputs, dyn)
        ELSE /\ nconst[t] <= 1
             /\ firstRet[t] # NoHandle => nconst[t] = 1
             /\ \A i \in Positions(t) : tres.handles[i] = firstRet[t]

\* a handle returned for t: the binding itself when its rank reaches the
\* broadcast dimension, else a shuffle layer made by this call from the binding
OfBinding(h, t) ==
    IF Len(bind[t].shape) >= tres.bnd
    THEN h = bind[t]
    ELSE h.kind = "shuffle" /\ h.src = bind[t].id /\ h.id > tres.base

\* C5 (constant materialized once): a leaf tensor consumed by trt_ calls of
\* one trace gets exactly one constant node, of the tensor's own shape, which
\* becomes its binding and is never replaced; every handle returned for the
\* tensor is that binding or a shuffle layer whose input is that binding, a
\* new one in every call that has to pad; a tensor that has a binding before
\* the first call gets no constant node and keeps its binding.
C5_ConstantOnce ==
    \A t \in Tensors :
        IF t \in inputs
        THEN nconst[t] = 0 /\ bind[t] = InputHandle(t, inputs, dyn)
        ELSE /\ nconst[t] <= 1
             /\ nconst[t] = 1 <=> bind[t] # NoHandle
             /\ bind[t] # NoHandle =>
                   (bind[t].kind = "const" /\ bind[t].shape = TShape(t))
             /\ firstRet[t] # NoHandle =>
                   /\ nconst[t] = 1
                   /\ firstRet[t] = bind[t] \/ firstRet[t].src = bind[t].id
             /\ \A i \in Positions(t) : OfBinding(tres.handles[i], t)

\* the leaf tensor w was returned as its constant by an earlier call and is
\* returned padded by the latest call
C5_Witness ==
    /\ "w" \notin inputs /\ ntrt = 2 /\ nconst["w"] = 1
    /\ firstRet["w"] = bind["w"] /\ firstRet["w"].id <= tres.base
    /\ \E i \in Positions("w") : tres.handles[i].kind = "shuffle"

\* the shape of an operand: the handle's shape for a traced tensor, the host
\* shape for a leaf tensor, one element for a number
OperandShape(o) ==
    IF o.k # "tensor" THEN <<1>>
    ELSE IF o.t \in inputs THEN InputShape(o.t, dyn) ELSE TShape(o.t)

MaxRankOf(ops) ==
    LET rs == {Len(OperandShape(ops[i])) : i \in 1..Len(ops)} \cup {0}
    IN  CHOOSE r \in rs : \A q \in rs : q <= r

\* C6 (rank-broadcast invariant): every handle trt_ returns has the rank of
\* the largest operand, its rightmost dimensions are the operand's own shape
\* and the dimensions put in front are all 1.
C6_RankBroadcast ==
    Returned =>
        \A i \in 1..Len(tres.handles) :
            LET own == OperandShape(tres.ops[i])
                got == tres.handles[i].shape
                r == MaxRankOf(tres.ops)
            IN  /\ Len(got) = r
                /\ SubSeq(got, r - Len(own) + 1, r) = own
                /\ \A j \in 1..(r - Len(own)) : got[j] = 1

OperandDtypes(ops) == {TDtype(ops[i].t) : i \in {j \in 1..Len(ops) : ops[j].k = "tensor"}}
HasKind(ops, k) == \E i \in 1..Len(ops) : ops[i].k = k

\* C7 (common element type): with a tensor among the operands the resolved
\* type is the tensors' shared type, and tensors of different types fail;
\* with no tensor the type is floating when a float is among the numbers, in
\* any order, and integer when all the numbers are integers; operands from
\* which no type can be inferred fail.
C7_CommonType ==
    tres.called =>
        LET ops == tres.ops
            ds == OperandDtypes(ops)
        IN  IF Cardinality(ds) > 1 THEN tres.dtypeErr
            ELSE IF Cardinality(ds) = 1 THEN ~tres.dtypeErr /\ tres.dtype \in ds
            ELSE IF HasKind(ops, "float") THEN ~tres.dtypeErr /\ tres.dtype = "float32"
            ELSE IF HasKind(ops, "int") THEN ~tres.dtypeErr /\ tres.dtype = "int32"
            ELSE tres.dtypeErr

(***************************************************************************)
(* converters/getitem.py: slice_to_trt.  An absent start, stop or step     *)
(* (None) is <<>>, a given one is <<v>>.                                   *)
(***************************************************************************)
OptInt(lo, hi) == {<<>>} \cup {<<v>> : v \in lo..hi}
Slice(a, b, c) == [start |-> a, stop |-> b, step |-> c]
FullSlice == Slice(<<>>, <<>>, <<>>)

\* slice_to_trt, lines 6-14
SliceToTrt(dim_size, dim_slice) ==
    LET start == IF dim_slice.start = <<>> THEN 0 ELSE dim_slice.start[1]
        stop == IF dim_slice.stop = <<>> THEN dim_size ELSE dim_slice.stop[1]
        stride == IF dim_slice.step = <<>> THEN 1 ELSE dim_slice.step[1]
        size == ((stop - start - 1) \div stride) + 1
    IN  [start |-> start, size |-> size, stride |-> stride]

\* the positions a (start, size, stride) triple reads
TriplePositions(t) == {t.start + k * t.stride : k \in 0..(t.size - 1)}

Max2(a, b) == IF a > b THEN a ELSE b
Min2(a, b) == IF a < b THEN a ELSE b

\* the host's reading of a bound of a slice with a positive step: a negative
\* bound counts from the end, and the result is clamped to 0..dim_size
HostBound(dim_size, b, default) ==
    IF b = <<>> THEN default
    ELSE IF b[1] < 0 THEN Max2(b[1] + dim_size, 0)
    ELSE Min2(b[1], dim_size)

\* the positions of a dimension that the host selects for x[dim_slice]
HostPositions(dim_size, dim_slice) ==
    LET start == HostBound(dim_size, dim_slice.start, 0)
        stop == HostBound(dim_size, dim_slice.stop, dim_size)
        step == IF dim_slice.step = <<>> THEN 1 ELSE dim_slice.step[1]
    IN  {i \in 0..(dim_size - 1) : i >= start /\ i < stop /\ (i - start) % step = 0}

NoTriple == [start |-> 0, size |-> 0, stride |-> 0]
SliceInputs ==
    [dim_size : 1..MaxDim,
     dim_slice : [start : OptInt(-MaxIdx, MaxIdx), stop : OptInt(-MaxIdx, MaxIdx),
                  step : OptInt(1, MaxStep)]]

NewSlice ==
    \E inp \in SliceInputs :
        sl = [dim_size |-> inp.dim_size, dim_slice |-> inp.dim_slice,
              done |-> FALSE, triple |-> NoTriple]

\* convert_tensor_getitem calls slice_to_trt(input_size, s), line 82
SliceCall ==
    /\ ~sl.done
    /\ sl' = [sl EXCEPT !.done = TRUE,
                        !.triple = SliceToTrt(sl.dim_size, sl.dim_slice)]
    /\ UNCHANGED notSlice

\* C8 (the strided-slice triple agrees with host slicing): for a slice with
\* any start and stop (absent, negative or beyond the dimension) and an absent
\* or positive step, the triple is start (0 if absent), stride (1 if absent)
\* and size floor((stop - start - 1) / stride) + 1, and the positions start,
\* start + stride, ... it reads are the positions the host selects.
C8_SliceAgrees ==
    sl.done =>
        LET s == sl.dim_slice
            start == IF s.start = <<>> THEN 0 ELSE s.start[1]
            stop == IF s.stop = <<>> THEN sl.dim_size ELSE s.stop[1]
            stride == IF s.step = <<>> THEN 1 ELSE s.step[1]
        IN  /\ sl.triple.start = start
            /\ sl.triple.stride = stride
            /\ sl.triple.size = ((stop - start - 1) \div stride) + 1
            /\ TriplePositions(sl.triple) = HostPositions(sl.dim_size, s)

(***************************************************************************)
(* converters/getitem.py: convert_tensor_getitem, step 1.                  *)
(***************************************************************************)
\* the elements of an index expression
IntEl(v) == [k |-> "int", v |-> v, s |-> FullSlice, dt |-> ""]
SliceEl(sc) == [k |-> "slice", v |-> 0, s |-> sc, dt |-> ""]
EllipsisEl == [k |-> "ellipsis", v |-> 0, s |-> FullSlice, dt |-> ""]
NoneEl == [k |-> "none", v |-> 0, s |-> FullSlice, dt |-> ""]
TensorEl(dt) == [k |-> "tensor", v |-> 0, s |-> FullSlice, dt |-> dt]
FullEl == SliceEl(FullSlice)

Elements == {IntEl(0), FullEl, SliceEl(Slice(<<1>>, <<>>, <<2>>)), EllipsisEl,
             NoneEl, TensorEl("int64"), TensorEl("bool")}

\* the shapes of the indexed tensor, as in the module tests (1, 5, 4, 3)
DimSizes == <<1, 5, 4, 3, 2, 2>>
ShapeOfRank(r) == SubSeq(DimSizes, 1, r)

\* num_slice_types, lines 17-22
RECURSIVE NumSliceTypes(_)
NumSliceTypes(slices) ==
    IF slices = <<>> THEN 0
    ELSE (IF Head(slices).k \in {"slice", "int"} THEN 1 ELSE 0)
         + NumSliceTypes(Tail(slices))

\* lines 44-57, from element i on: st = [new, ne] is new_slices and num_ellipsis
RECURSIVE ExpandLoop(_, _, _)
ExpandLoop(slices, i, st) ==
    IF i > Len(slices) THEN st
    ELSE LET e == slices[i]
         IN  IF e.k = "ellipsis"
             THEN ExpandLoop(slices, i + 1,
                     [new |-> st.new \o [j \in 1..Max2(st.ne, 0) |-> FullEl],
                      ne |-> Min2(st.ne, 0)])
             ELSE IF e.k = "tensor"
             THEN ExpandLoop(slices, i + 1, [st EXCEPT !.new = Append(@, FullEl)])
             ELSE ExpandLoop(slices, i + 1, [st EXCEPT !.new = Append(@, e)])

\* lines 59-61: fill missing slices at end
RECURSIVE FillLoop(_, _)
FillLoop(new, rank) ==
    IF NumSliceTypes(new) < rank THEN FillLoop(Append(new, FullEl), rank) ELSE new

\* lines 36-61: slices is the tuple of the index expression (lines 37-38 wrap a
\* single element)
NewSlices(shape, slices) ==
    LET num_ellipsis == Len(shape) - NumSliceTypes(slices)
    IN  FillLoop(ExpandLoop(slices, 1, [new |-> <<>>, ne |-> num_ellipsis]).new,
                 Len(shape))

Count(sq, kinds) == Cardinality({i \in 1..Len(sq) : sq[i].k \in kinds})

\* the index expressions the host accepts for a tensor of this rank, so that
\* the wrapper's line 236 returns and the translator runs
HostAccepts(rank, slices) ==
    /\ Count(slices, {"ellipsis"}) <= 1
    /\ Count(slices, {"int", "slice", "tensor"}) <= rank

IndexExprs == UNION { [1..n -> Elements] : n \in 0..MaxIdxLen }

\* line 34: the rank of input_trt; add_inputs left the batch out in legacy mode
TrtRank(shape, dynamic) == IF dynamic THEN Len(shape) ELSE Len(shape) - 1

\* lines 63-66: slices is rebound to the normalized expression without its
\* first element in legacy mode only
Step2(slices, new_slices, dynamic) == IF dynamic THEN slices ELSE Tail1(new_slices)

\* lines 75-92, from element i of new_slices on: acc is <<starts, sizes, strides>>
\* as a sequence of triples, input_dim the cursor
RECURSIVE Step3(_, _, _, _, _, _)
Step3(new_slices, i, input_dim, trt_rank, shape, acc) ==
    IF i > Len(new_slices) \/ input_dim >= trt_rank THEN acc
    ELSE LET s == new_slices[i]
             input_size == shape[input_dim + 1]
         IN  IF s.k = "slice"
             THEN Step3(new_slices, i + 1, input_dim + 1, trt_rank, shape,
                        Append(acc, SliceToTrt(input_size, s.s)))
             ELSE IF s.k = "int"
             THEN Step3(new_slices, i + 1, input_dim + 1, trt_rank, shape,
                        Append(acc, [start |-> s.v, size |-> 1, stride |-> 1]))
             ELSE Step3(new_slices, i + 1, input_dim, trt_rank, shape, acc)

\* line 97: the positions in slices (counted from 0) of the int32 and int64
\* index tensors
GatherIndex(slices) ==
    {e \in 0..(Len(slices) - 1) :
        slices[e + 1].k = "tensor" /\ slices[e + 1].dt \in {"int32", "int64"}}

\* lines 98-101: one gather layer per position, in increasing order; el is the
\* element of slices whose trt_ handle is the indices
RECURSIVE Step35(_, _)
Step35(gather_index, from) ==
    IF \A g \in gather_index : g < from THEN <<>>
    ELSE LET gidx == CHOOSE g \in gather_index :
                        g >= from /\ \A h \in gather_index : h >= from => g <= h
         IN  <<[axis |-> gidx, el |-> gidx + 1]>> \o Step35(gather_index, gidx + 1)

\* line 105: every element of slices that is not a slice object
NumNonSlice(slices) == Len(slices) - Count(slices, {"slice"})

\* lines 106-114: the shuffle layers added, each with the part of output.shape
\* (from is the first dimension kept) it takes as reshape_dims
Step4(slices, dynamic) ==
    IF NumNonSlice(slices) > 0
    THEN <<[from |-> IF dynamic THEN 0 ELSE 1]>>
    ELSE <<>>

\* line 116: the layer whose output becomes output._trt
OutputLayer(gathers, shuffles) ==
    IF shuffles # <<>> THEN "shuffle" ELSE IF gathers # <<>> THEN "gather" ELSE "slice"

NewIndex ==
    \E r \in 1..MaxRank, e \in IndexExprs, d \in BOOLEAN :
        /\ HostAccepts(r, e)
        /\ gi = [shape |-> ShapeOfRank(r), slices |-> e, dynamic |-> d,
                 done |-> FALSE, new_slices |-> <<>>, slices2 |-> <<>>,
                 triples |-> <<>>, gathers |-> <<>>, shuffles |-> <<>>,
                 output |-> "none"]

\* convert_tensor_getitem runs on x[slices]
GetItem ==
    /\ ~gi.done
    /\ \E new \in {NewSlices(gi.shape, gi.slices)} :
       \E s2 \in {Step2(gi.slices, new, gi.dynamic)} :
         LET gathers == Step35(GatherIndex(s2), 0)
             shuffles == Step4(s2, gi.dynamic)
         IN  gi' = [gi EXCEPT !.done = TRUE, !.new_slices = new, !.slices2 = s2,
                       !.triples = Step3(new, 1, 0, TrtRank(gi.shape, gi.dynamic),
                                         gi.shape, <<>>),
                       !.gathers = gathers, !.shuffles = shuffles,
                       !.output = OutputLayer(gathers, shuffles)]
    /\ UNCHANGED notIndex

\* the normalized expression the elements from i on should give: the
\* ellipsis becomes fill full slices, an index tensor holds its place
RECURSIVE Normalized(_, _, _)
Normalized(slices, i, fill) ==
    IF i > Len(slices) THEN <<>>
    ELSE (IF slices[i].k = "ellipsis" THEN [j \in 1..fill |-> FullEl]
          ELSE IF slices[i].k = "tensor" THEN <<FullEl>>
          ELSE <<slices[i]>>) \o Normalized(slices, i + 1, fill)

\* C9 (ellipsis normalization): for an index expression with at most one
\* ellipsis and at most R dimension-consuming elements (integers, slices,
\* index tensors), the ellipsis is replaced by R minus the number of consuming
\* elements full slices, or the expression is right-padded with full slices
\* when it has no ellipsis, so that the normalized expression covers exactly R
\* dimensions, keeps every newaxis and keeps the order of the elements.
C9_Normalization ==
    gi.done =>
        LET r == Len(gi.shape)
            fill == r - Count(gi.slices, {"int", "slice", "tensor"})
            pad == IF Count(gi.slices, {"ellipsis"}) = 0 THEN fill ELSE 0
        IN  /\ Count(gi.new_slices, {"int", "slice"}) = r
            /\ Count(gi.new_slices, {"none"}) = Count(gi.slices, {"none"})
            /\ gi.new_slices = Normalized(gi.slices, 1, fill) \o [j \in 1..pad |-> FullEl]

\* the dimension-consuming elements of a normalized expression, in order
IsConsuming(e) == e.k \in {"slice", "int"}
Consuming(new_slices) == SelectSeq(new_slices, IsConsuming)

\* the triple of one consuming element on a dimension of this size
ElementTriple(e, size) ==
    IF e.k = "slice" THEN SliceToTrt(size, e.s)
    ELSE [start |-> e.v, size |-> 1, stride |-> 1]

\* C11 (legacy batch strip): in legacy mode the first normalized element, the
\* batch axis, gives no triple and the i-th triple is that of the (i+1)-th
\* dimension-consuming normalized element on host dimension i+1, one triple
\* per dimension of the batch-less handle; in dynamic mode the batch element
\* is kept and the i-th triple is that of the i-th element on host dimension i.
C11_BatchStrip ==
    gi.done =>
        LET c == Consuming(gi.new_slices)
            off == IF gi.dynamic THEN 0 ELSE 1
            n == Len(gi.shape) - off
        IN  /\ Len(gi.triples) = n
            /\ \A i \in 1..n :
                  gi.triples[i] = ElementTriple(c[i + off], gi.shape[i + off])

\* the gather layers the integer index tensors of slices from element p on
\* should give: the axis is the position the element has in the normalized
\* expression, counted from 0, without the batch element when strip is 1
RECURSIVE Gathers(_, _, _, _)
Gathers(slices, p, fill, strip) ==
    IF p > Len(slices) THEN <<>>
    ELSE (IF slices[p].k = "tensor" /\ slices[p].dt \in {"int32", "int64"}
          THEN <<[axis |-> Len(Normalized(SubSeq(slices, 1, p - 1), 1, fill)) - strip,
                  el |-> p]>>
          ELSE <<>>) \o Gathers(slices, p + 1, fill, strip)

\* C12 (gather emission): in both modes every integer index tensor of the
\* index expression gives exactly one gather layer after the slice layer, with
\* that tensor's handle as indices and the element's position in the
\* normalized (batch-stripped in legacy mode) expression as axis, the gathers
\* chained from left to right; a boolean index tensor gives none.
C12_Gathers ==
    gi.done =>
        LET fill == Len(gi.shape) - Count(gi.slices, {"int", "slice", "tensor"})
        IN  gi.gathers = Gathers(gi.slices, 1, fill, IF gi.dynamic THEN 0 ELSE 1)

\* the index expression has an integer, a newaxis or an index tensor at a
\* normalized position that the mode keeps (strip is 1 in legacy mode)
HasNonSlice(slices, fill, strip) ==
    \E p \in 1..Len(slices) :
        /\ slices[p].k \in {"int", "none", "tensor"}
        /\ Len(Normalized(SubSeq(slices, 1, p - 1), 1, fill)) >= strip

\* C13 (shape fix-up): in both modes, when the normalized expression has an
\* element that is not a slice (integer, newaxis or index tensor), the handle
\* bound to the call's return value is the output of exactly one final reshape
\* layer whose target is the host's output shape, without its first dimension
\* in legacy mode.
C13_ShapeFix ==
    gi.done =>
        LET fill == Len(gi.shape) - Count(gi.slices, {"int", "slice", "tensor"})
            strip == IF gi.dynamic THEN 0 ELSE 1
        IN  HasNonSlice(gi.slices, fill, strip) =>
                (gi.output = "shuffle" /\ gi.shuffles = <<[from |-> strip]>>)

(***************************************************************************)
(* The specifications: one per part of the program, the other parts idle.  *)
(***************************************************************************)
IdleHooks ==
    /\ registry = <<>> /\ slots = Slots0 /\ impl = <<>> /\ phase = "idle"
    /\ stack = <<>> /\ lock = FALSE /\ margs = NoneVal /\ mkwargs = NoneVal
    /\ mret = NoneVal /\ mstr = UnsetKey /\ ncalls = 0 /\ emits = 0 /\ ev = NoEvent
IdleTrt ==
    /\ dyn = TRUE /\ inputs = {} /\ bind = [t \in Tensors |-> NoHandle]
    /\ nlayers = 0 /\ nconst = [t \in Tensors |-> 0]
    /\ firstRet = [t \in Tensors |-> NoHandle] /\ ntrt = 0 /\ tres = NoTrt
IdleSlice ==
    sl = [dim_size |-> 1, dim_slice |-> FullSlice, done |-> TRUE, triple |-> NoTriple]
IdleIndex ==
    gi = [shape |-> <<1>>, slices |-> <<>>, dynamic |-> TRUE, done |-> TRUE,
          new_slices |-> <<>>, slices2 |-> <<>>, triples |-> <<>>,
          gathers |-> <<>>, shuffles |-> <<>>, output |-> "none"]

\* the hooks and the trace context
Init == NewContext /\ IdleTrt /\ IdleSlice /\ IdleIndex
Spec == Init /\ [][Next]_vars

\* the broadcast resolver, one call on any operands, any tensors being inputs
InitTrt ==
    /\ \E ins \in SUBSET Tensors : FreshTrace(ins)
    /\ IdleHooks /\ IdleSlice /\ IdleIndex
SpecTrt == InitTrt /\ [][Resolve]_vars

\* the broadcast resolver, the calls of one trace
InitLeaf ==
    /\ \E ins \in SUBSET {"x", "w"} : FreshTrace(ins)
    /\ IdleHooks /\ IdleSlice /\ IdleIndex
SpecLeaf == InitLeaf /\ [][ResolveAgain]_vars

\* slice_to_trt
InitSlice == NewSlice /\ IdleHooks /\ IdleTrt /\ IdleIndex
SpecSlice == InitSlice /\ [][SliceCall]_vars

\* the indexing translator
InitIndex == NewIndex /\ IdleHooks /\ IdleTrt /\ IdleSlice
SpecIndex == InitIndex /\ [][GetItem]_vars
====
